---- MODULE Spec2Model ----
(***************************************************************************)
(* city-crave: a food-ordering client (Menu, Checkout, Orders, Staff       *)
(* pages) over a hosted relational store with row-level policies.          *)
(*                                                                         *)
(* Money is kept in mills (1/1000 of a currency unit) so that the 10% tax  *)
(* of a two-decimal amount is an exact integer: 8.99 is 8990.              *)
(***************************************************************************)
EXTENDS Integers, Sequences, FiniteSets, TLC

\* ------------------------------------------------------------------ bounds
\* largest quantity a cart line is driven to
MaxQty == 2
\* largest magnitude of the signed delta handed to updateQuantity
MaxDelta == 2
\* number of order rows the store accepts before the exploration stops
MaxOrders == 1
\* number of ordered_items rows the store holds before direct inserts stop
MaxItemRows == 5
\* what an administrator adds to a catalog price, in mills
PriceRise == 1000

\* answers of fetchOrders calls of one page that may be awaited at a time
MaxInflight == 2

\* ------------------------------------------------------- catalog and store
\* menu rows seeded by the migration, in insertion order: Spring Rolls 8.99,
\* Chicken Wings 12.99 (price decimal(10,2), here in mills)
MenuSeed == <<8990, 12990>>

\* MenuItem rows the Menu page holds after fetchData (id, price)
menuItems == {[id |-> i, price |-> MenuSeed[i]] : i \in 1..Len(MenuSeed)}

ItemIds == {m.id : m \in menuItems}

\* branch ids of the branches relation; "" is the useState initial value
BranchIds == {"b1", "b2"}

NoBranch == ""

\* signed deltas updateQuantity is called with
Deltas == (-MaxDelta)..MaxDelta

\* the values of the order_type enum / the Checkout radio group
OrderTypes == {"dine_in", "takeaway", "delivery"}

\* the values of the order_status enum
Statuses == {"pending", "preparing", "ready", "in_delivery", "delivered", "cancelled"}

\* customers holding an account
Users == {"u1"}

\* rows of the staff relation: the branch each staff user is assigned to
StaffTable == [s \in {"s1", "s2"} |-> "b1"]

StaffUsers == DOMAIN StaffTable

\* supabase.auth.getSession() resolving without a session
NoSession == "none"

\* text typed into the delivery address box, as sequences of characters:
\* empty, whitespace-only, and an address with surrounding whitespace
Addresses == {<<>>, <<" ">>, <<" ", "a">>}

\* SQL NULL in a text column
Null == <<"NULL">>

\* ---------------------------------------------------------------- accounts
\* a visitor nobody has signed up as yet
NewUser == "n1"

\* the users auth.users can hold
Accounts == Users \cup StaffUsers \cup {NewUser}

\* the values of the user_type enum
UserTypes == {"customer", "staff"}

\* the values of the app_role enum
AppRoles == {"admin", "staff", "customer"}

\* no row of profiles for the user
NoProfile == "none"

\* text in a form field: len characters, pad of them whitespace around the
\* rest; shape tells an address with a dotted domain ("a@b.c") from one
\* without ("a@b") and from text that is no address ("text")
Text(pad, len, shape) == [pad |-> pad, len |-> len, shape |-> shape]

EmptyText == Text(0, 0, "text")

\* String.prototype.trim as z.string().trim() applies it
TrimText(t) == Text(0, t.len - t.pad, t.shape)

\* the fields of formData
Fields == {"email", "password", "name", "phone"}

\* the limits of loginSchema and signupSchema; the maxLength attributes of
\* the email, password and phone inputs repeat the upper ones
EmailMax == 255

PasswordMin == 6

PasswordMax == 100

NameMin == 1

NameMax == 100

PhoneMax == 20

\* no message for a field in the errors record
NoMessage == ""

\* loginSchema.email: trim, email, max; fieldErrors keeps the message of the
\* last issue of a field
EmailIssue(t) ==
  IF TrimText(t).len > EmailMax THEN "Email is too long"
  ELSE IF TrimText(t).shape # "a@b.c" THEN "Please enter a valid email address"
  ELSE NoMessage

\* loginSchema.password: min, max, the text taken as typed
PasswordIssue(t) ==
  IF t.len < PasswordMin THEN "Password must be at least 6 characters"
  ELSE IF t.len > PasswordMax THEN "Password is too long"
  ELSE NoMessage

\* signupSchema.name: trim, min, max
NameIssue(t) ==
  IF TrimText(t).len < NameMin THEN "Name is required"
  ELSE IF TrimText(t).len > NameMax THEN "Name is too long"
  ELSE NoMessage

\* signupSchema.phone: trim, max, or the empty literal
PhoneIssue(t) ==
  IF TrimText(t).len > PhoneMax THEN "Phone number is too long" ELSE NoMessage

\* schema.safeParse(formData) folded into fieldErrors: loginSchema drops the
\* name and the phone, signupSchema extends it with both
SafeParse(isLogin, form) ==
  [f \in Fields |->
     CASE f = "email"    -> EmailIssue(form.email)
       [] f = "password" -> PasswordIssue(form.password)
       [] f = "name"     -> IF isLogin THEN NoMessage ELSE NameIssue(form.name)
       [] f = "phone"    -> IF isLogin THEN NoMessage ELSE PhoneIssue(form.phone)]

NoErrors == [f \in Fields |-> NoMessage]

\* result.success
Success(issues) == issues = NoErrors

\* the maxLength attribute of a field's input, 0 standing for none
MaxLength(f) ==
  CASE f = "email"    -> EmailMax
    [] f = "password" -> PasswordMax
    [] f = "phone"    -> PhoneMax
    [] f = "name"     -> 0

\* what the form lets a visitor leave in a field; an input of type email
\* holds its text without surrounding whitespace
FieldValues(f) ==
  CASE f = "email"    -> {EmptyText, Text(0, 4, "text"), Text(0, 3, "a@b"),
                          Text(0, 5, "a@b.c")}
    [] f = "password" -> {Text(0, PasswordMin - 1, "text"), Text(0, PasswordMin, "text")}
    [] f = "name"     -> {EmptyText, Text(1, 1, "text"), Text(0, 4, "text")}
    [] f = "phone"    -> {EmptyText, Text(1, PhoneMax, "text")}

\* texts no input of the form lets through, as a script can submit them
LongValues(f) ==
  CASE f = "email"    -> {Text(0, EmailMax + 1, "a@b.c")}
    [] f = "password" -> {Text(0, PasswordMax + 1, "text")}
    [] f = "name"     -> {Text(0, NameMax + 1, "text")}
    [] f = "phone"    -> {Text(0, PhoneMax + 1, "text"), Text(PhoneMax + 1, PhoneMax + 1, "text")}

\* the submit event reaches onSubmit only when the input of type email is
\* empty or holds an address
BrowserSubmits(form) == form.email.len = 0 \/ form.email.shape # "text"

EmptyForm == [f \in Fields |-> EmptyText]

\* a form that passes signupSchema
ValidForm == [email |-> Text(0, 5, "a@b.c"), password |-> Text(0, PasswordMin, "text"),
              name |-> Text(0, 4, "text"), phone |-> EmptyText]

\* no handleAuth has run
NoHandleAuth == [outcome |-> "none", isLogin |-> TRUE, form |-> EmptyForm,
                 calls |-> 0, user |-> "none", created |-> NoProfile]

\* the useState initial values of a mounting Auth; component tells the Auth
\* with the validation schemas ("schema") from the one with the account type
\* selector ("selector")
AuthMounted(component) ==
  [component |-> component, isLogin |-> TRUE, userType |-> "customer",
   formData |-> EmptyForm, errors |-> NoErrors, loading |-> FALSE,
   last |-> NoHandleAuth]

\* the useState initial values of a mounting Staff
StaffMounted == [loading |-> TRUE]

\* handle_new_user: the user_type of the profile made for a new auth user,
\* from raw_user_meta_data->>'user_type', "" standing for a missing key
HandleNewUser(meta) == IF meta = "" THEN "customer" ELSE meta

VARIABLES
  page,            \* route currently rendered
  session,         \* auth: the signed-in user, or NoSession
  branches,        \* Menu: useState<Branch[]>, the fetched branch ids
  cart,            \* Menu: useState<CartItem[]>
  selectedBranch,  \* Menu: useState<string>
  lastOp,          \* history: the last cart operation and its arguments
  prevCart,        \* history: the cart before the last cart operation
  locState,        \* router: location.state handed to /checkout
  orderType,       \* Checkout: useState orderType
  deliveryAddress, \* Checkout: useState deliveryAddress
  loading,         \* Checkout: useState loading
  pc,              \* Checkout: position of the running handlePlaceOrder
  po,              \* Checkout: locals and call log of the last handlePlaceOrder
  lastToast,       \* title of the last toast on the customer's screen
  orders,          \* store: rows of the orders relation
  ordered_items,   \* store: rows of the ordered_items relation
  view,            \* Staff: useState<Order[]> of each staff member's dashboard
  staffToast,      \* title of the last toast on a staff dashboard
  lastWrite,       \* history: the last write a dashboard or a signed-in user
                   \* sent to the store outside the checkout, and its sender
  feed,            \* realtime: subscribers with an undelivered orders change
  ordersPage,      \* Orders: useState orders and loading of the customer's list
  catalog,         \* store: menu.price by menu id
  fault,           \* history: the call site of the last failed call of a page
                   \* other than the Checkout, and the toast its catch showed
  auth,            \* Auth: its useState values and the log of the last handleAuth
  profiles,        \* store: profiles.user_type by user id
  user_roles,      \* store: rows of the user_roles relation, as (user, role)
  staffPage,       \* Staff: useState loading of the signed-in visitor's dashboard
  inflight         \* Orders: the answers of fetchOrders calls not yet received

menuVars == <<branches, cart, selectedBranch, lastOp, prevCart>>

checkoutVars == <<orderType, deliveryAddress, loading, pc, po>>

storeVars == <<orders, ordered_items>>

staffVars == <<view, staffToast, lastWrite>>

liveVars == <<feed, ordersPage, catalog, fault>>

identVars == <<auth, profiles, user_roles, staffPage, inflight>>

vars == <<page, session, branches, cart, selectedBranch, lastOp, prevCart, locState,
          orderType, deliveryAddress, loading, pc, po, lastToast, orders, ordered_items,
          view, staffToast, lastWrite, feed, ordersPage, catalog, fault,
          auth, profiles, user_roles, staffPage, inflight>>

\* ------------------------------------------------------------ cart helpers
\* prev.find((i) => i.id === id) !== undefined
HasLine(c, id) == \E k \in 1..Len(c) : c[k].id = id

\* index of the first line with the id (Array.prototype.find order), 0 if none
FindIndex(c, id) ==
  IF HasLine(c, id) THEN CHOOSE k \in 1..Len(c) :
                           /\ c[k].id = id
                           /\ \A j \in 1..(k - 1) : c[j].id # id
  ELSE 0

\* cart.find((i) => i.id === item.id)?.quantity, 0 standing for undefined
ShownQuantity(c, id) == IF HasLine(c, id) THEN c[FindIndex(c, id)].quantity ELSE 0

\* Array.prototype.filter with the predicate (i) => i.quantity > 0
RECURSIVE FilterPositive(_)
FilterPositive(c) ==
  IF c = <<>> THEN <<>>
  ELSE IF Head(c).quantity > 0 THEN <<Head(c)>> \o FilterPositive(Tail(c))
       ELSE FilterPositive(Tail(c))

\* addToCart without the lookup of an existing line: always appends
AddToCartFnAlwaysAppend(prev, item) ==
  Append(prev, [id |-> item.id, price |-> item.price, quantity |-> 1])

\* addToCart that re-inserts the incremented line at the end of the cart
AddToCartFnMoveToEnd(prev, item) ==
  IF HasLine(prev, item.id)
  THEN LET k == FindIndex(prev, item.id)
       IN  SubSeq(prev, 1, k - 1) \o SubSeq(prev, k + 1, Len(prev))
             \o <<[prev[k] EXCEPT !.quantity = prev[k].quantity + 1]>>
  ELSE Append(prev, [id |-> item.id, price |-> item.price, quantity |-> 1])

\* the updater addToCart hands to setCart
AddToCartFn(prev, item) ==
  IF HasLine(prev, item.id)
  THEN [k \in 1..Len(prev) |->
          IF prev[k].id = item.id
          THEN [prev[k] EXCEPT !.quantity = prev[k].quantity + 1]
          ELSE prev[k]]
  ELSE Append(prev, [id |-> item.id, price |-> item.price, quantity |-> 1])

\* filter with the predicate (i) => i.quantity >= 0
RECURSIVE FilterNonNegative(_)
FilterNonNegative(c) ==
  IF c = <<>> THEN <<>>
  ELSE IF Head(c).quantity >= 0 THEN <<Head(c)>> \o FilterNonNegative(Tail(c))
       ELSE FilterNonNegative(Tail(c))

\* updateQuantity that keeps a line whose quantity reached exactly 0
UpdateQuantityFnKeepZero(prev, itemId, delta) ==
  FilterNonNegative([k \in 1..Len(prev) |->
                       IF prev[k].id = itemId
                       THEN [prev[k] EXCEPT !.quantity = prev[k].quantity + delta]
                       ELSE prev[k]])

\* updateQuantity that applies the delta to every line, not only the matching one
UpdateQuantityFnAllLines(prev, itemId, delta) ==
  FilterPositive([k \in 1..Len(prev) |->
                    [prev[k] EXCEPT !.quantity = prev[k].quantity + delta]])

\* the updater updateQuantity hands to setCart
UpdateQuantityFn(prev, itemId, delta) ==
  FilterPositive([k \in 1..Len(prev) |->
                    IF prev[k].id = itemId
                    THEN [prev[k] EXCEPT !.quantity = prev[k].quantity + delta]
                    ELSE prev[k]])

\* a total that adds each line's unit price once, ignoring its quantity
RECURSIVE CartTotalIgnoringQuantity(_)
CartTotalIgnoringQuantity(c) ==
  IF c = <<>> THEN 0
  ELSE CartTotalIgnoringQuantity(SubSeq(c, 1, Len(c) - 1)) + c[Len(c)].price

\* cart.reduce((sum, item) => sum + item.price * item.quantity, 0)
RECURSIVE CartTotal(_)
CartTotal(c) ==
  IF c = <<>> THEN 0
  ELSE CartTotal(SubSeq(c, 1, Len(c) - 1)) + c[Len(c)].price * c[Len(c)].quantity

\* cart.reduce((sum, item) => sum + item.quantity, 0)
RECURSIVE CartCount(_)
CartCount(c) ==
  IF c = <<>> THEN 0
  ELSE CartCount(SubSeq(c, 1, Len(c) - 1)) + c[Len(c)].quantity

cartTotal == CartTotal(cart)

cartCount == CartCount(cart)

NoOp == [op |-> "none", id |-> 0, delta |-> 0]

\* ------------------------------------------------------------------- Menu
\* the exploration follows user input while the store has room for an order
Active == Len(orders) < MaxOrders

\* Menu.addToCart(item)
AddToCart(item) ==
  /\ page = "menu"
  /\ Active
  /\ ShownQuantity(cart, item.id) < MaxQty
  /\ cart' = AddToCartFn(cart, item)
  /\ prevCart' = cart
  /\ lastOp' = [op |-> "addToCart", id |-> item.id, delta |-> 1]
  /\ lastToast' = "Added to cart"
  /\ UNCHANGED <<page, session, identVars, branches, selectedBranch, locState, checkoutVars, storeVars, staffVars, liveVars>>

\* Menu.updateQuantity(itemId, delta)
UpdateQuantity(itemId, delta) ==
  /\ page = "menu"
  /\ Active
  /\ ShownQuantity(cart, itemId) + delta <= MaxQty
  /\ cart' = UpdateQuantityFn(cart, itemId, delta)
  /\ prevCart' = cart
  /\ lastOp' = [op |-> "updateQuantity", id |-> itemId, delta |-> delta]
  /\ UNCHANGED <<page, session, identVars, branches, selectedBranch, locState, lastToast,
                 checkoutVars, storeVars, staffVars, liveVars>>

\* location.state || { cart: [], branchId: "" }
NoState == [cart |-> <<>>, branchId |-> NoBranch]

NoCalls == [getSession |-> 0, insertOrder |-> 0, insertItems |-> 0]

\* no handlePlaceOrder has run on the mounted Checkout
NoPlaceOrder == [outcome |-> "none", user |-> NoSession, order |-> 0, calls |-> NoCalls]

\* the useState initial values of a mounting Orders page
OrdersMounted == [orders |-> <<>>, loading |-> TRUE]

\* the useState initial values of a mounting Checkout
CheckoutMounted ==
  /\ orderType' = "dine_in"
  /\ deliveryAddress' = <<>>
  /\ loading' = FALSE
  /\ pc' = "idle"
  /\ po' = NoPlaceOrder

\* the useState initial values of a mounting Menu whose fetchData returned
MenuMounted ==
  /\ cart' = <<>>
  /\ prevCart' = <<>>
  /\ lastOp' = NoOp
  /\ selectedBranch' = IF branches = <<>> THEN NoBranch ELSE branches[1]
  /\ UNCHANGED branches

\* the Menu leaves the screen: its useState values are gone
MenuUnmounted ==
  /\ cart' = <<>>
  /\ prevCart' = <<>>
  /\ lastOp' = NoOp
  /\ selectedBranch' = NoBranch
  /\ UNCHANGED branches

\* has_role(_user_id, _role)
HasRole(uid, role) == <<uid, role>> \in user_roles

\* navigate("/menu") and the checkAuth of the mounting Menu: a visitor
\* without a session goes on to /auth, one whose profile says staff to /staff
EnterMenu(uid) ==
  IF uid = NoSession THEN page' = "auth" /\ UNCHANGED menuVars
  ELSE IF profiles[uid] = "staff" THEN page' = "staff" /\ UNCHANGED menuVars
  ELSE page' = "menu" /\ MenuMounted

\* Select onValueChange={setSelectedBranch}
SetSelectedBranch(b) ==
  /\ page = "menu"
  /\ Active
  /\ \E k \in 1..Len(branches) : branches[k] = b
  /\ selectedBranch' = b
  /\ UNCHANGED <<page, session, identVars, branches, cart, lastOp, prevCart, locState, lastToast,
                 checkoutVars, storeVars, staffVars, liveVars>>

\* Menu.handleCheckout without the empty-cart check
HandleCheckoutNoCartCheck ==
  /\ page = "menu"
  /\ Active
  /\ IF selectedBranch = NoBranch
     THEN /\ lastToast' = "Please select a branch"
          /\ UNCHANGED <<page, menuVars, locState, checkoutVars>>
     ELSE /\ page' = "checkout"
          /\ locState' = [cart |-> cart, branchId |-> selectedBranch]
          /\ CheckoutMounted
          /\ MenuUnmounted
          /\ UNCHANGED lastToast
  /\ UNCHANGED <<session, identVars, storeVars, staffVars, liveVars>>

\* Menu.handleCheckout
HandleCheckout ==
  /\ page = "menu"
  /\ Active
  /\ IF selectedBranch = NoBranch
     THEN /\ lastToast' = "Please select a branch"
          /\ UNCHANGED <<page, menuVars, locState, checkoutVars>>
     ELSE IF Len(cart) = 0
     THEN /\ lastToast' = "Cart is empty"
          /\ UNCHANGED <<page, menuVars, locState, checkoutVars>>
     ELSE /\ page' = "checkout"
          /\ locState' = [cart |-> cart, branchId |-> selectedBranch]
          /\ CheckoutMounted
          /\ MenuUnmounted
          /\ UNCHANGED lastToast
  /\ UNCHANGED <<session, identVars, storeVars, staffVars, liveVars>>

\* Menu.handleSignOut
HandleSignOut ==
  /\ page = "menu"
  /\ Active
  /\ session' = NoSession
  /\ page' = "auth"
  /\ MenuUnmounted
  /\ UNCHANGED <<identVars, locState, lastToast, checkoutVars, storeVars, staffVars, liveVars>>

\* the /checkout route opened by its address: no navigation state
OpenCheckout ==
  /\ page \in {"menu", "auth", "orders"}
  /\ Active
  /\ page' = "checkout"
  /\ locState' = NoState
  /\ CheckoutMounted
  /\ MenuUnmounted
  /\ UNCHANGED <<session, identVars, lastToast, storeVars, staffVars, liveVars>>

\* ---------------------------------------------------------------- Checkout
\* the divisor that "subtotal * 0.1" amounts to
TaxDivisor == 10

\* the flat delivery fee 5.99, in mills
FlatDeliveryFee == 5990

\* cart.reduce((sum, item) => sum + item.price * item.quantity, 0) of Checkout
RECURSIVE Subtotal(_)
Subtotal(c) ==
  IF c = <<>> THEN 0
  ELSE Subtotal(SubSeq(c, 1, Len(c) - 1)) + c[Len(c)].price * c[Len(c)].quantity

\* tax = subtotal * 0.1
Tax(c) == Subtotal(c) \div TaxDivisor

\* a delivery fee charged for every order type but dine_in
DeliveryFeeUnlessDineIn(t) == IF t # "dine_in" THEN FlatDeliveryFee ELSE 0

\* deliveryFee = orderType === "delivery" ? 5.99 : 0
DeliveryFee(t) == IF t = "delivery" THEN FlatDeliveryFee ELSE 0

\* total = subtotal + tax + deliveryFee
Total(c, t) == Subtotal(c) + Tax(c) + DeliveryFee(t)

\* a two-decimal display that cuts the third decimal off
ToFixed2Truncating(m) == {m \div 10}

\* Number.prototype.toFixed(2) of an amount in mills, in cents.  The amount is
\* a double in the program: away from an exact half cent the nearest cent is
\* the result, on an exact half cent the binary value lies on either side.
ToFixed2(m) ==
  IF m % 10 = 5 THEN {m \div 10, m \div 10 + 1} ELSE {(m + 5) \div 10}

\* the values a decimal(10,2) column takes for an amount in mills, in mills
Numeric2(m) == {10 * x : x \in ToFixed2(m)}

\* whitespace as String.prototype.trim understands it
IsSpace(ch) == ch = " "

RECURSIVE TrimStart(_)
TrimStart(str) ==
  IF str # <<>> /\ IsSpace(Head(str)) THEN TrimStart(Tail(str)) ELSE str

RECURSIVE TrimEnd(_)
TrimEnd(str) ==
  IF str # <<>> /\ IsSpace(str[Len(str)]) THEN TrimEnd(SubSeq(str, 1, Len(str) - 1))
  ELSE str

\* a check of the raw text, without trimming
NoTrim(str) == str

\* String.prototype.trim
Trim(str) == TrimEnd(TrimStart(str))

\* RadioGroup onValueChange={(v) => setOrderType(v)}
SetOrderType(v) ==
  /\ page = "checkout"
  /\ Active
  /\ pc = "idle"
  /\ orderType' = v
  /\ UNCHANGED <<page, session, identVars, menuVars, locState, deliveryAddress, loading, pc, po,
                 lastToast, storeVars, staffVars, liveVars>>

\* Textarea onChange={(e) => setDeliveryAddress(e.target.value)}; the box is
\* rendered only while orderType is delivery
SetDeliveryAddress(a) ==
  /\ page = "checkout"
  /\ Active
  /\ pc = "idle"
  /\ orderType = "delivery"
  /\ deliveryAddress' = a
  /\ UNCHANGED <<page, session, identVars, menuVars, locState, orderType, loading, pc, po,
                 lastToast, storeVars, staffVars, liveVars>>

\* Checkout "Back to Menu": the Checkout unmounts (its state and location are
\* gone), the Menu remounts, and its checkAuth sends a visitor without a
\* session on to /auth
BackToMenu ==
  /\ page = "checkout"
  /\ Active
  /\ pc = "idle"
  /\ EnterMenu(session)
  /\ locState' = NoState
  /\ CheckoutMounted
  /\ UNCHANGED <<session, identVars, lastToast, storeVars, staffVars, liveVars>>

\* handlePlaceOrder, from the click to the first await: the address check and
\* setLoading(true).  The button is disabled while loading.
PlaceOrderStart ==
  /\ page = "checkout"
  /\ Active
  /\ pc = "idle"
  /\ ~loading
  /\ IF orderType = "delivery" /\ Trim(deliveryAddress) = <<>>
     THEN /\ lastToast' = "Please enter delivery address"
          /\ po' = [NoPlaceOrder EXCEPT !.outcome = "address_required"]
          /\ UNCHANGED <<loading, pc>>
     ELSE /\ loading' = TRUE
          /\ pc' = "getSession"
          /\ po' = [NoPlaceOrder EXCEPT !.outcome = "running"]
          /\ UNCHANGED lastToast
  /\ UNCHANGED <<page, session, identVars, menuVars, locState, orderType, deliveryAddress, storeVars, staffVars, liveVars>>

\* a handlePlaceOrder that goes on to the insert whatever getSession returns
PlaceOrderGetSessionNoCheck ==
  /\ pc = "getSession"
  /\ pc' = "insertOrder"
  /\ po' = [po EXCEPT !.user = session,
                      !.calls.getSession = po.calls.getSession + 1]
  /\ UNCHANGED <<page, loading>>
  /\ UNCHANGED <<session, identVars, menuVars, locState, orderType, deliveryAddress, lastToast,
                 storeVars, staffVars, liveVars>>

\* handlePlaceOrder: await supabase.auth.getSession() and the branch on it
PlaceOrderGetSession ==
  /\ pc = "getSession"
  /\ IF session = NoSession
     THEN /\ page' = "auth"
          /\ loading' = FALSE
          /\ pc' = "idle"
          /\ po' = [po EXCEPT !.outcome = "no_session",
                              !.calls.getSession = po.calls.getSession + 1]
     ELSE /\ pc' = "insertOrder"
          /\ po' = [po EXCEPT !.user = session,
                              !.calls.getSession = po.calls.getSession + 1]
          /\ UNCHANGED <<page, loading>>
  /\ UNCHANGED <<session, identVars, menuVars, locState, orderType, deliveryAddress, lastToast,
                 storeVars, staffVars, liveVars>>

\* an orders row that carries the typed address whatever the order type
OrderRowAddressAlways(id, uid, branchId, t, address, tx, tt) ==
  [id               |-> id,
   user_id          |-> uid,
   branch_id        |-> branchId,
   order_type       |-> t,
   status           |-> "pending",
   tax              |-> tx,
   tip              |-> 0,
   delivery_fee     |-> DeliveryFee(t),
   total            |-> tt,
   delivery_address |-> address]

\* the row handlePlaceOrder sends to the orders relation for a cart, with tx
\* and tt the values the decimal(10,2) columns tax and total take
OrderRow(id, uid, branchId, t, address, tx, tt) ==
  [id               |-> id,
   user_id          |-> uid,
   branch_id        |-> branchId,
   order_type       |-> t,
   status           |-> "pending",
   tax              |-> tx,
   tip              |-> 0,
   delivery_fee     |-> DeliveryFee(t),
   total            |-> tt,
   delivery_address |-> IF t = "delivery" THEN address ELSE Null]

\* the rows the insert of handlePlaceOrder can store for the mounted Checkout
OrderRows(uid) ==
  {OrderRow(Len(orders) + 1, uid, locState.branchId, orderType, deliveryAddress, tx, tt) :
     tx \in Numeric2(Tax(locState.cart)),
     tt \in Numeric2(Total(locState.cart, orderType))}

\* a staff check that forgets the branch
IsStaffOfAnyBranch(uid, branchId) == uid \in DOMAIN StaffTable

\* EXISTS (SELECT 1 FROM staff s WHERE s.user_id = auth.uid()
\*         AND s.branch_id = orders.branch_id)
IsStaffOfBranch(uid, branchId) ==
  uid \in DOMAIN StaffTable /\ StaffTable[uid] = branchId

\* the SELECT policies of orders: "Users can view their own orders" or "Staff
\* can view orders for their branch"
OrdersSelectPolicy(uid, row) ==
  row.user_id = uid \/ IsStaffOfBranch(uid, row.branch_id)

\* the clients a change of an orders row is broadcast to: the open pages with
\* a channel on table "orders" whose user may select the row
Subscribers(row) ==
  {s \in StaffUsers : OrdersSelectPolicy(s, row)}
    \cup (IF page = "orders" /\ session # NoSession /\ OrdersSelectPolicy(session, row)
          THEN {session} ELSE {})

\* the subscribers of the change of the order with the id
SubscribersOf(orderId) ==
  UNION {Subscribers(orders[k]) : k \in {j \in 1..Len(orders) : orders[j].id = orderId}}

\* what the store requires of an inserted orders row: the policy "Users can
\* create their own orders" and a branch_id that is the id of a branch ("" is
\* no uuid)
OrdersInsertAllowed(row) ==
  /\ session # NoSession
  /\ row.user_id = session
  /\ row.branch_id \in BranchIds

\* a handlePlaceOrder that sends the insert into orders a second time when
\* the first is answered with an error
PlaceOrderInsertOrderRetry ==
  /\ pc = "insertOrder"
  /\ \/ /\ \E row \in OrderRows(po.user) :
             /\ OrdersInsertAllowed(row)
             /\ orders' = Append(orders, row)
             /\ feed' = feed \cup Subscribers(row)
             /\ po' = [po EXCEPT !.order = row.id,
                                 !.calls.insertOrder = po.calls.insertOrder + 1]
        /\ pc' = "insertItems"
        /\ UNCHANGED <<loading, lastToast>>
     \/ /\ po.calls.insertOrder = 0
        /\ po' = [po EXCEPT !.calls.insertOrder = po.calls.insertOrder + 1]
        /\ UNCHANGED <<orders, feed, loading, lastToast, pc>>
     \/ /\ po.calls.insertOrder > 0
        /\ lastToast' = "Error placing order"
        /\ loading' = FALSE
        /\ pc' = "idle"
        /\ po' = [po EXCEPT !.outcome = "order_error",
                            !.calls.insertOrder = po.calls.insertOrder + 1]
        /\ UNCHANGED <<orders, feed>>
  /\ UNCHANGED <<page, session, identVars, menuVars, locState, orderType, deliveryAddress,
                 ordered_items, staffVars, ordersPage, catalog, fault>>

\* handlePlaceOrder: the insert into orders; the store accepts the row, or
\* answers with an error (a refused row, or a fault of the call)
PlaceOrderInsertOrder ==
  /\ pc = "insertOrder"
  /\ \/ /\ \E row \in OrderRows(po.user) :
             /\ OrdersInsertAllowed(row)
             /\ orders' = Append(orders, row)
             /\ feed' = feed \cup Subscribers(row)
             /\ po' = [po EXCEPT !.order = row.id,
                                 !.calls.insertOrder = po.calls.insertOrder + 1]
        /\ pc' = "insertItems"
        /\ UNCHANGED <<loading, lastToast>>
     \/ /\ lastToast' = "Error placing order"
        /\ loading' = FALSE
        /\ pc' = "idle"
        /\ po' = [po EXCEPT !.outcome = "order_error",
                            !.calls.insertOrder = po.calls.insertOrder + 1]
        /\ UNCHANGED <<orders, feed>>
  /\ UNCHANGED <<page, session, identVars, menuVars, locState, orderType, deliveryAddress,
                 ordered_items, staffVars, ordersPage, catalog, fault>>

\* cart.map((item) => ({ order_id, menu_id, quantity, price_each }))
OrderItems(orderId, c) ==
  [k \in 1..Len(c) |-> [order_id   |-> orderId,
                         menu_id    |-> c[k].id,
                         quantity   |-> c[k].quantity,
                         price_each |-> c[k].price]]

\* what the store requires of inserted ordered_items rows: the policy "Users
\* can insert items to their own orders" and CHECK (quantity > 0)
ItemsInsertAllowed(rows) ==
  \A k \in 1..Len(rows) :
    /\ rows[k].quantity > 0
    /\ \E j \in 1..Len(orders) :
         /\ orders[j].id = rows[k].order_id
         /\ session # NoSession
         /\ orders[j].user_id = session

\* a handlePlaceOrder whose catch is not followed by setLoading(false)
PlaceOrderInsertItemsNoFinally ==
  /\ pc = "insertItems"
  /\ \/ /\ ItemsInsertAllowed(OrderItems(po.order, locState.cart))
        /\ ordered_items' = ordered_items \o OrderItems(po.order, locState.cart)
        /\ lastToast' = "Order placed successfully!"
        /\ page' = "orders"
        /\ po' = [po EXCEPT !.outcome = "placed",
                            !.calls.insertItems = po.calls.insertItems + 1]
        /\ loading' = FALSE
     \/ /\ lastToast' = "Error placing order"
        /\ po' = [po EXCEPT !.outcome = "items_error",
                            !.calls.insertItems = po.calls.insertItems + 1]
        /\ UNCHANGED <<page, ordered_items, loading>>
  /\ pc' = "idle"
  /\ UNCHANGED <<session, identVars, menuVars, locState, orderType, deliveryAddress, orders,
                 staffVars, liveVars>>

\* handlePlaceOrder: the insert into ordered_items, then the success toast and
\* navigate("/orders"), or the catch; and the finally
PlaceOrderInsertItems ==
  /\ pc = "insertItems"
  /\ \/ /\ ItemsInsertAllowed(OrderItems(po.order, locState.cart))
        /\ ordered_items' = ordered_items \o OrderItems(po.order, locState.cart)
        /\ lastToast' = "Order placed successfully!"
        /\ page' = "orders"
        /\ po' = [po EXCEPT !.outcome = "placed",
                            !.calls.insertItems = po.calls.insertItems + 1]
     \/ /\ lastToast' = "Error placing order"
        /\ po' = [po EXCEPT !.outcome = "items_error",
                            !.calls.insertItems = po.calls.insertItems + 1]
        /\ UNCHANGED <<page, ordered_items>>
  /\ loading' = FALSE
  /\ pc' = "idle"
  /\ UNCHANGED <<session, identVars, menuVars, locState, orderType, deliveryAddress, orders,
                 staffVars, liveVars>>

\* Orders "Back to Menu"
OrdersBackToMenu ==
  /\ page = "orders"
  /\ EnterMenu(session)
  /\ locState' = NoState
  /\ CheckoutMounted
  /\ ordersPage' = OrdersMounted
  /\ feed' = feed \ {session}
  /\ inflight' = {}
  /\ UNCHANGED <<session, auth, profiles, user_roles, staffPage, lastToast, storeVars,
                 staffVars, catalog, fault>>

\* the Menu page after mount and fetchData: empty cart, first branch selected
\* (or none when the branches fetch returned no rows)
InitMenu ==
  /\ page = "menu"
  /\ session \in Users
  /\ branches \in {<<>>, <<"b1", "b2">>}
  /\ cart = <<>>
  /\ selectedBranch = IF branches = <<>> THEN NoBranch ELSE branches[1]
  /\ lastOp = NoOp
  /\ prevCart = <<>>
  /\ locState = NoState
  /\ lastToast = ""

InitCheckout ==
  /\ orderType = "dine_in"
  /\ deliveryAddress = <<>>
  /\ loading = FALSE
  /\ pc = "idle"
  /\ po = NoPlaceOrder

InitStore ==
  /\ orders = <<>>
  /\ ordered_items = <<>>

\* before any write outside the checkout
NoWrite == [by |-> NoSession, kind |-> "none", order |-> 0, from |-> "none",
            to |-> "none", rows |-> 0]

\* no Staff dashboard has fetched yet
InitStaff ==
  /\ view = [s \in StaffUsers |-> <<>>]
  /\ staffToast = ""
  /\ lastWrite = NoWrite

\* no call of a page has failed yet
NoFault == [site |-> "none", toast |-> "none"]

\* the accounts of the seeded users, the user_roles rows the second
\* migration copies from their profiles, and the Auth with the schemas
InitIdent ==
  /\ auth = AuthMounted("schema")
  /\ profiles = [a \in Accounts |->
                   IF a \in StaffUsers THEN "staff"
                   ELSE IF a \in Users THEN "customer" ELSE NoProfile]
  /\ user_roles = {<<a, "staff">> : a \in StaffUsers} \cup {<<a, "customer">> : a \in Users}
  /\ staffPage = StaffMounted
  /\ inflight = {}

\* no change broadcast yet, no Orders page fetched, the seeded catalog
InitLive ==
  /\ feed = {}
  /\ ordersPage = OrdersMounted
  /\ catalog = [id \in ItemIds |-> MenuSeed[id]]
  /\ fault = NoFault

Init == InitMenu /\ InitCheckout /\ InitStore /\ InitStaff /\ InitLive /\ InitIdent

\* the cart operations of the Menu page on their own
NextCart ==
  \/ \E item \in menuItems : AddToCart(item)
  \/ \E itemId \in ItemIds, delta \in Deltas : UpdateQuantity(itemId, delta)

SpecCart == Init /\ [][NextCart]_vars

\* the customer's way from the menu through the checkout into the store
Next ==
  \/ \E item \in menuItems : AddToCart(item)
  \/ \E itemId \in ItemIds, delta \in Deltas : UpdateQuantity(itemId, delta)
  \/ \E b \in BranchIds : SetSelectedBranch(b)
  \/ HandleCheckout
  \/ HandleSignOut
  \/ OpenCheckout
  \/ \E v \in OrderTypes : SetOrderType(v)
  \/ \E a \in Addresses : SetDeliveryAddress(a)
  \/ BackToMenu
  \/ PlaceOrderStart
  \/ PlaceOrderGetSession
  \/ PlaceOrderInsertOrder
  \/ PlaceOrderInsertItems
  \/ OrdersBackToMenu

Spec == Init /\ [][Next]_vars

\* ------------------------------------------------------------------ Staff
\* a sequence back to front: order("created_at", { ascending: false })
Reverse(rows) == [k \in 1..Len(rows) |-> rows[Len(rows) + 1 - k]]

\* the UPDATE policies of orders: "Users can update their own pending orders"
\* or "Staff can update orders for their branch".  Neither has a WITH CHECK, so
\* the same expression is applied to the row as found and to the row as updated.
OrdersUpdatePolicy(uid, row) ==
  (row.user_id = uid /\ row.status = "pending") \/ IsStaffOfBranch(uid, row.branch_id)

\* the status column of the order with the id ("none" without such a row)
StatusOf(orderId) ==
  IF \E k \in 1..Len(orders) : orders[k].id = orderId
  THEN orders[CHOOSE k \in 1..Len(orders) : orders[k].id = orderId].status
  ELSE "none"

\* the record of a status update the store answered without an error: its
\* sender, the order named, the status the order had, the status sent and the
\* number of rows rewritten
StatusWrite(uid, orderId, newStatus, rows) ==
  [by |-> uid, kind |-> "status", order |-> orderId, from |-> StatusOf(orderId),
   to |-> newStatus, rows |-> rows]

\* an update that rewrites the status of pending orders only
StoreUpdateStatusFirstWins(uid, orderId, newStatus) ==
  LET Target(k) == /\ orders[k].id = orderId
                   /\ OrdersSelectPolicy(uid, orders[k])
                   /\ OrdersUpdatePolicy(uid, orders[k])
      Updated(k) == IF orders[k].status = "pending"
                    THEN [orders[k] EXCEPT !.status = newStatus]
                    ELSE orders[k]
      refused == \E k \in 1..Len(orders) :
                   Target(k) /\ ~OrdersUpdatePolicy(uid, Updated(k))
  IN  [error  |-> refused,
       rows   |-> IF refused THEN 0
                  ELSE Cardinality({k \in 1..Len(orders) : Target(k)}),
       orders |-> IF refused THEN orders
                  ELSE [k \in 1..Len(orders) |->
                          IF Target(k) THEN Updated(k) ELSE orders[k]]]

\* update({ status }).eq("id", orderId) sent by uid: the rows with that id
\* that uid may see and update are rewritten; the statement fails as a whole
\* when a rewritten row is refused by the policies
StoreUpdateStatus(uid, orderId, newStatus) ==
  LET Target(k) == /\ orders[k].id = orderId
                   /\ OrdersSelectPolicy(uid, orders[k])
                   /\ OrdersUpdatePolicy(uid, orders[k])
      Updated(k) == [orders[k] EXCEPT !.status = newStatus]
      refused == \E k \in 1..Len(orders) :
                   Target(k) /\ ~OrdersUpdatePolicy(uid, Updated(k))
  IN  [error  |-> refused,
       rows   |-> IF refused THEN 0
                  ELSE Cardinality({k \in 1..Len(orders) : Target(k)}),
       orders |-> IF refused THEN orders
                  ELSE [k \in 1..Len(orders) |->
                          IF Target(k) THEN Updated(k) ELSE orders[k]]]

\* the row filter of Staff.fetchOrders: what the SELECT policies let s see,
\* .eq("branch_id", branchId), .neq("status", "delivered") and
\* .neq("status", "cancelled")
StaffKeeps(s, row) ==
  /\ OrdersSelectPolicy(s, row)
  /\ row.branch_id = StaffTable[s]
  /\ row.status # "delivered"
  /\ row.status # "cancelled"

RECURSIVE StaffRows(_, _)
StaffRows(s, rows) ==
  IF rows = <<>> THEN <<>>
  ELSE IF StaffKeeps(s, Head(rows)) THEN <<Head(rows)>> \o StaffRows(s, Tail(rows))
       ELSE StaffRows(s, Tail(rows))

\* the stored line items of an order, in insertion order
ItemsOfOrder(orderId) == SelectSeq(ordered_items, LAMBDA r : r.order_id = orderId)

\* ordered_items(quantity, price_each, menu(name)) of the select
StaffItemRow(r) ==
  [quantity |-> r.quantity, price_each |-> r.price_each, menu |-> r.menu_id]

\* an orders row with its embedded ordered_items
StaffOrderRow(row) ==
  [f \in DOMAIN row \cup {"ordered_items"} |->
     IF f = "ordered_items"
     THEN [j \in 1..Len(ItemsOfOrder(row.id)) |-> StaffItemRow(ItemsOfOrder(row.id)[j])]
     ELSE row[f]]

\* the rows Staff.fetchOrders receives, newest first
StaffFetchResult(s, rows) ==
  LET kept == Reverse(StaffRows(s, rows))
  IN  [k \in 1..Len(kept) |-> StaffOrderRow(kept[k])]

\* Staff.fetchOrders: the Refresh button, the mount, or a change event
StaffFetchOrders(s) ==
  /\ \/ /\ view' = [view EXCEPT ![s] = StaffFetchResult(s, orders)]
        /\ UNCHANGED fault
     \/ /\ fault' = [site |-> "Staff.fetchOrders", toast |-> "none"]
        /\ UNCHANGED view
  /\ UNCHANGED <<staffToast, page, session, identVars, menuVars, locState, checkoutVars, lastToast, storeVars,
                 lastWrite, feed, ordersPage, catalog>>

\* the postgres_changes callback of the channel "staff-orders-changes": a
\* change of an orders row reaches the dashboard of s, which runs fetchOrders
StaffOnOrdersChange(s) ==
  /\ s \in feed
  /\ feed' = feed \ {s}
  /\ \/ /\ view' = [view EXCEPT ![s] = StaffFetchResult(s, orders)]
        /\ UNCHANGED fault
     \/ /\ fault' = [site |-> "Staff.fetchOrders", toast |-> "none"]
        /\ UNCHANGED view
  /\ UNCHANGED <<staffToast, page, session, identVars, menuVars, locState, checkoutVars, lastToast, storeVars,
                 lastWrite, ordersPage, catalog>>

\* Staff.updateOrderStatus(orderId, newStatus) run by staff member s: the
\* update, the toast and the fetchOrders that follows; or the catch
UpdateOrderStatus(s, orderId, newStatus) ==
  /\ LET r == StoreUpdateStatus(s, orderId, newStatus)
     IN  \/ /\ ~r.error
            /\ orders' = r.orders
            /\ lastWrite' = StatusWrite(s, orderId, newStatus, r.rows)
            /\ feed' = IF r.rows > 0 THEN feed \cup SubscribersOf(orderId) ELSE feed
            /\ staffToast' = "Status updated"
            /\ view' = [view EXCEPT ![s] = StaffFetchResult(s, r.orders)]
            /\ UNCHANGED fault
         \/ /\ staffToast' = "Error"
            /\ fault' = [site |-> "Staff.updateOrderStatus", toast |-> "Error"]
            /\ UNCHANGED <<orders, view, lastWrite, feed>>
  /\ UNCHANGED <<lastToast, page, session, identVars, menuVars, locState, checkoutVars, ordered_items,
                 ordersPage, catalog>>

\* the SelectItems the dashboard renders for an order it shows
OfferedStatuses(order) ==
  {"pending", "preparing", "ready", "delivered", "cancelled"}
    \cup (IF order.order_type = "delivery" THEN {"in_delivery"} ELSE {})

\* Select onValueChange={(v) => updateOrderStatus(order.id, v)} on the k-th
\* order card of staff member s
StaffSelectStatus(s, k, v) ==
  /\ k \in 1..Len(view[s])
  /\ v \in OfferedStatuses(view[s][k])
  /\ v # view[s][k].status
  /\ UpdateOrderStatus(s, view[s][k].id, v)

\* an update of the status column sent to the store by a signed-in user
\* outside the dashboard; the access policies decide
StoreUpdate(uid, orderId, newStatus) ==
  /\ LET r == StoreUpdateStatus(uid, orderId, newStatus)
     IN  /\ ~r.error
         /\ orders' = r.orders
         /\ lastWrite' = StatusWrite(uid, orderId, newStatus, r.rows)
         /\ feed' = IF r.rows > 0 THEN feed \cup SubscribersOf(orderId) ELSE feed
  /\ UNCHANGED <<staffToast, page, session, identVars, menuVars, locState, checkoutVars, lastToast,
                 ordered_items, view, ordersPage, catalog, fault>>

\* the policy "Users can insert items to their own orders": the order of the
\* row exists and belongs to the sender; and CHECK (quantity > 0)
ItemInsertPolicy(uid, row) ==
  /\ row.quantity > 0
  /\ \E j \in 1..Len(orders) :
       orders[j].id = row.order_id /\ orders[j].user_id = uid

\* an ordered_items row sent to the store by a signed-in user outside the
\* checkout; the access policies decide
StoreInsertItem(uid, orderId, item) ==
  /\ Len(ordered_items) < MaxItemRows
  /\ LET row == [order_id |-> orderId, menu_id |-> item.id, quantity |-> 1,
                 price_each |-> item.price]
     IN  /\ ItemInsertPolicy(uid, row)
         /\ ordered_items' = Append(ordered_items, row)
         /\ lastWrite' = [by |-> uid, kind |-> "item", order |-> orderId,
                          from |-> StatusOf(orderId), to |-> StatusOf(orderId),
                          rows |-> 1]
  /\ UNCHANGED <<staffToast, page, session, identVars, menuVars, locState, checkoutVars, lastToast,
                 orders, view, liveVars>>

\* the cart {Spring Rolls x 2, Chicken Wings x 1}
ExampleCart ==
  <<[id |-> 1, price |-> MenuSeed[1], quantity |-> 2],
    [id |-> 2, price |-> MenuSeed[2], quantity |-> 1]>>

\* the order row a completed handlePlaceOrder of customer u1 left for the
\* example cart
PlacedOrder(id, branchId, t) ==
  OrderRow(id, "u1", branchId, t, <<" ", "a">>,
           CHOOSE tx \in Numeric2(Tax(ExampleCart)) : TRUE,
           CHOOSE tt \in Numeric2(Total(ExampleCart, t)) : TRUE)

\* the dashboards open on a store that holds two placed orders, one per
\* branch, of one order type
InitStaffDesk ==
  /\ InitMenu
  /\ branches # <<>>
  /\ InitCheckout
  /\ InitStaff
  /\ InitLive
  /\ InitIdent
  /\ \E t \in OrderTypes :
       orders = <<PlacedOrder(1, "b1", t), PlacedOrder(2, "b2", t)>>
  /\ ordered_items = OrderItems(1, ExampleCart) \o OrderItems(2, ExampleCart)

\* staff at their dashboards, and updateOrderStatus run with any arguments
NextStaff ==
  \/ \E s \in StaffUsers : StaffFetchOrders(s)
  \/ \E s \in StaffUsers : \E k \in 1..Len(view[s]), v \in Statuses :
       StaffSelectStatus(s, k, v)
  \/ \E s \in StaffUsers, orderId \in 1..(Len(orders) + 1), v \in Statuses :
       UpdateOrderStatus(s, orderId, v)

SpecStaff == InitStaffDesk /\ [][NextStaff]_vars

\* statements signed-in users send to the store directly, the access
\* policies being the only guard
NextStore ==
  \/ \E uid \in Users \cup StaffUsers, orderId \in 1..(Len(orders) + 1), v \in Statuses :
       StoreUpdate(uid, orderId, v)
  \/ \E uid \in Users \cup StaffUsers, orderId \in 1..(Len(orders) + 1), item \in menuItems :
       StoreInsertItem(uid, orderId, item)

SpecStore == InitStaffDesk /\ [][NextStore]_vars

\* ------------------------------------------------------------------ Orders
RECURSIVE VisibleRows(_, _)
\* the orders rows the SELECT policies let uid see, in insertion order
VisibleRows(uid, rows) ==
  IF rows = <<>> THEN <<>>
  ELSE IF OrdersSelectPolicy(uid, Head(rows))
       THEN <<Head(rows)>> \o VisibleRows(uid, Tail(rows))
       ELSE VisibleRows(uid, Tail(rows))

\* the rows Orders.fetchOrders receives: select("*, branches(name, address)"),
\* newest first; the select names no user and embeds no ordered_items
OrdersFetchResult(uid) == Reverse(VisibleRows(uid, orders))

\* Orders.checkAuthAndFetch, run once by the mount effect
OrdersCheckAuthAndFetch ==
  /\ page = "orders"
  /\ ordersPage.loading
  /\ IF session = NoSession
     THEN /\ page' = "auth"
          /\ UNCHANGED ordersPage
          /\ UNCHANGED fault
     ELSE /\ \/ /\ ordersPage' = [orders |-> OrdersFetchResult(session), loading |-> FALSE]
                /\ UNCHANGED fault
             \/ /\ ordersPage' = [ordersPage EXCEPT !.loading = FALSE]
                /\ fault' = [site |-> "Orders.fetchOrders", toast |-> "none"]
          /\ UNCHANGED page
  /\ UNCHANGED <<session, identVars, menuVars, locState, checkoutVars, lastToast, storeVars,
                 staffVars, feed, catalog>>

\* the postgres_changes callback of the channel "orders-changes": a change of
\* an orders row reaches the open Orders page, which runs fetchOrders
OrdersOnOrdersChange ==
  /\ page = "orders"
  /\ session \in feed
  /\ feed' = feed \ {session}
  /\ \/ /\ ordersPage' = [orders |-> OrdersFetchResult(session), loading |-> FALSE]
        /\ UNCHANGED fault
     \/ /\ ordersPage' = [ordersPage EXCEPT !.loading = FALSE]
        /\ fault' = [site |-> "Orders.fetchOrders", toast |-> "none"]
  /\ UNCHANGED <<page, session, identVars, menuVars, locState, checkoutVars, lastToast, storeVars,
                 staffVars, catalog>>

\* the postgres_changes callback of the channel "orders-changes" up to the
\* await of fetchOrders: the select is sent and the store answers with the
\* rows it holds; the answer is on its way
OrdersFetchCall ==
  /\ page = "orders"
  /\ session \in feed
  /\ Cardinality(inflight) < MaxInflight
  /\ feed' = feed \ {session}
  /\ inflight' = inflight \cup {OrdersFetchResult(session)}
  /\ UNCHANGED <<page, session, auth, profiles, user_roles, staffPage, menuVars, locState,
                 checkoutVars, lastToast, storeVars, staffVars, ordersPage, catalog, fault>>

\* Orders.fetchOrders from its await on: an awaited answer arrives, whichever
\* call it belongs to, and setOrders(data) and setLoading(false) show it
OrdersFetchAnswer(rows) ==
  /\ page = "orders"
  /\ rows \in inflight
  /\ inflight' = inflight \ {rows}
  /\ ordersPage' = [orders |-> rows, loading |-> FALSE]
  /\ UNCHANGED <<page, session, auth, profiles, user_roles, staffPage, menuVars, locState,
                 checkoutVars, lastToast, storeVars, staffVars, feed, catalog, fault>>

\* the prices an administrator may give a menu item: the seeded one or a
\* raised one
CatalogPrices(id) == {MenuSeed[id], MenuSeed[id] + PriceRise}

\* menu.price of an item rewritten by an administrator of the store (the
\* policies give no client a write on menu)
CatalogSetPrice(id, p) ==
  /\ p # catalog[id]
  /\ catalog' = [catalog EXCEPT ![id] = p]
  /\ UNCHANGED <<page, session, identVars, menuVars, locState, checkoutVars, lastToast, storeVars,
                 staffVars, feed, ordersPage, fault>>

\* the cart the customer of the live scenario brought to the Checkout
LiveCarts == {ExampleCart}

\* the customer on the Checkout page with a cart for branch b1, the staff
\* dashboards open on the empty store
InitLiveDesk ==
  /\ page = "checkout"
  /\ session \in Users
  /\ branches = <<"b1", "b2">>
  /\ cart = <<>>
  /\ selectedBranch = NoBranch
  /\ lastOp = NoOp
  /\ prevCart = <<>>
  /\ lastToast = ""
  /\ \E c \in LiveCarts : locState = [cart |-> c, branchId |-> "b1"]
  /\ InitCheckout
  /\ InitStore
  /\ InitStaff
  /\ InitLive
  /\ InitIdent

\* an order being placed while the dashboards and the Orders page follow the
\* store through their realtime channels
NextLive ==
  \/ PlaceOrderStart
  \/ PlaceOrderGetSession
  \/ PlaceOrderInsertOrder
  \/ PlaceOrderInsertItems
  \/ OrdersCheckAuthAndFetch
  \/ OrdersOnOrdersChange
  \/ \E s \in StaffUsers : StaffOnOrdersChange(s)
  \/ \E s \in StaffUsers : \E k \in 1..Len(view[s]), v \in Statuses :
       StaffSelectStatus(s, k, v)

SpecLive == InitLiveDesk /\ [][NextLive]_vars

\* an order being placed and read back while an administrator reprices the
\* catalog
NextRoundTrip ==
  \/ PlaceOrderStart
  \/ PlaceOrderGetSession
  \/ PlaceOrderInsertOrder
  \/ PlaceOrderInsertItems
  \/ OrdersCheckAuthAndFetch
  \/ \E s \in StaffUsers : StaffFetchOrders(s)
  \/ \E id \in ItemIds : \E p \in CatalogPrices(id) : CatalogSetPrice(id, p)

SpecRoundTrip == InitLiveDesk /\ [][NextRoundTrip]_vars

\* ------------------------------------------------------------ Menu and Auth
\* the Menu page loaded anew: the mount effect runs fetchData; the three
\* selects return their rows, or a call fails and the page stays empty
MenuReload ==
  /\ page = "menu"
  /\ cart' = <<>>
  /\ prevCart' = <<>>
  /\ lastOp' = NoOp
  /\ \/ /\ branches' = <<"b1", "b2">>
        /\ selectedBranch' = "b1"
        /\ UNCHANGED fault
     \/ /\ branches' = <<>>
        /\ selectedBranch' = NoBranch
        /\ fault' = [site |-> "Menu.fetchData", toast |-> "none"]
  /\ UNCHANGED <<page, session, identVars, locState, checkoutVars, lastToast, storeVars, staffVars,
                 feed, ordersPage, catalog>>

\* Auth input onChange: setFormData({ ...formData, [field]: e.target.value });
\* the name and the phone inputs are rendered for a sign-up only
AuthSetField(f, v) ==
  /\ page = "auth"
  /\ f \in {"name", "phone"} => ~auth.isLogin
  /\ MaxLength(f) = 0 \/ v.len <= MaxLength(f)
  /\ auth' = [auth EXCEPT !.formData[f] = v]
  /\ UNCHANGED <<page, session, profiles, user_roles, inflight, staffPage, menuVars, locState,
                 checkoutVars, lastToast, storeVars, staffVars, liveVars>>

\* Auth: setIsLogin(!isLogin)
AuthToggle ==
  /\ page = "auth"
  /\ auth' = [auth EXCEPT !.isLogin = ~auth.isLogin]
  /\ UNCHANGED <<page, session, profiles, user_roles, inflight, staffPage, menuVars, locState,
                 checkoutVars, lastToast, storeVars, staffVars, liveVars>>

\* handleAuth up to its first await, with setLoading(true) ahead of the
\* validation
HandleAuthLoadingFirst ==
  /\ page = "auth"
  /\ auth.component = "schema"
  /\ ~auth.loading
  /\ BrowserSubmits(auth.formData)
  /\ LET issues == SafeParse(auth.isLogin, auth.formData)
         log == [NoHandleAuth EXCEPT !.isLogin = auth.isLogin, !.form = auth.formData]
     IN  IF ~Success(issues)
         THEN auth' = [auth EXCEPT !.errors = issues, !.loading = TRUE,
                                   !.last = [log EXCEPT !.outcome = "rejected"]]
         ELSE auth' = [auth EXCEPT !.errors = NoErrors, !.loading = TRUE,
                                   !.last = [log EXCEPT !.outcome = "calling", !.calls = 1]]
  /\ UNCHANGED <<page, session, profiles, user_roles, inflight, staffPage, menuVars, locState,
                 checkoutVars, lastToast, storeVars, staffVars, liveVars>>

\* Auth.handleAuth up to its first await: setErrors({}), safeParse; a form
\* that fails leaves its messages in errors and returns, one that passes
\* sets loading and sends signInWithPassword or signUp
HandleAuth ==
  /\ page = "auth"
  /\ auth.component = "schema"
  /\ ~auth.loading
  /\ BrowserSubmits(auth.formData)
  /\ LET issues == SafeParse(auth.isLogin, auth.formData)
         log == [NoHandleAuth EXCEPT !.isLogin = auth.isLogin, !.form = auth.formData]
     IN  IF ~Success(issues)
         THEN auth' = [auth EXCEPT !.errors = issues,
                                   !.last = [log EXCEPT !.outcome = "rejected"]]
         ELSE auth' = [auth EXCEPT !.errors = NoErrors, !.loading = TRUE,
                                   !.last = [log EXCEPT !.outcome = "calling", !.calls = 1]]
  /\ UNCHANGED <<page, session, profiles, user_roles, inflight, staffPage, menuVars, locState,
                 checkoutVars, lastToast, storeVars, staffVars, liveVars>>

\* the catch and the finally of handleAuth
HandleAuthCatch ==
  /\ lastToast' = "Error"
  /\ fault' = [site |-> "Auth.handleAuth", toast |-> "Error"]
  /\ auth' = [auth EXCEPT !.loading = FALSE, !.last.outcome = "error"]
  /\ UNCHANGED <<page, session, profiles, staffPage, menuVars>>

\* the Auth leaves the screen after a handleAuth that went through
AuthLeft(outcome, uid, created) ==
  auth' = [AuthMounted(auth.component) EXCEPT
             !.last = [auth.last EXCEPT !.outcome = outcome, !.user = uid,
                                        !.created = created]]

\* Auth.handleAuth of a sign-in from the answer of signInWithPassword on:
\* getSession, the toast, rpc has_role and navigate; or the catch
HandleAuthSignIn(uid) ==
  /\ page = "auth"
  /\ auth.component = "schema"
  /\ auth.loading
  /\ auth.last.isLogin
  /\ session = NoSession
  /\ \/ /\ profiles[uid] # NoProfile
        /\ session' = uid
        /\ lastToast' = "Welcome back!"
        /\ IF HasRole(uid, "staff")
           THEN page' = "staff" /\ UNCHANGED menuVars
           ELSE EnterMenu(uid)
        /\ AuthLeft("signed_in", uid, NoProfile)
        /\ UNCHANGED <<fault, profiles, staffPage>>
     \/ HandleAuthCatch
  /\ UNCHANGED <<user_roles, inflight, locState, checkoutVars, storeVars, staffVars, feed,
                 ordersPage, catalog>>

\* Auth.handleAuth of a sign-up from the answer of signUp on: the trigger
\* has made the profile from the metadata, the toast and navigate("/menu");
\* or the catch, as for an address that holds an account
HandleAuthSignUp ==
  /\ page = "auth"
  /\ auth.component = "schema"
  /\ auth.loading
  /\ ~auth.last.isLogin
  /\ session = NoSession
  /\ \/ /\ profiles[NewUser] = NoProfile
        /\ profiles' = [profiles EXCEPT ![NewUser] = HandleNewUser("customer")]
        /\ session' = NewUser
        /\ lastToast' = "Account created!"
        /\ page' = "menu"
        /\ MenuMounted
        /\ AuthLeft("signed_up", NewUser, HandleNewUser("customer"))
        /\ UNCHANGED <<fault, staffPage>>
     \/ HandleAuthCatch
  /\ UNCHANGED <<user_roles, inflight, locState, checkoutVars, storeVars, staffVars, feed,
                 ordersPage, catalog>>

\* the submit event of the Auth with the account type selector reaches
\* onSubmit only with its required inputs filled
SelectorSubmits(isLogin, form) ==
  /\ form.email.len > 0 /\ form.email.shape # "text"
  /\ form.password.len > 0
  /\ isLogin \/ form.name.len > 0

\* Tabs onValueChange: setUserType(v)
AuthSetUserType(v) ==
  /\ page = "auth"
  /\ auth.component = "selector"
  /\ auth' = [auth EXCEPT !.userType = v]
  /\ UNCHANGED <<page, session, profiles, user_roles, inflight, staffPage, menuVars, locState,
                 checkoutVars, lastToast, storeVars, staffVars, liveVars>>

\* handleAuth of the Auth with the account type selector, a sign-in: no
\* validation, signInWithPassword, the profile read, the toast and navigate
HandleAuthSelectorSignIn(uid) ==
  /\ page = "auth"
  /\ auth.component = "selector"
  /\ auth.isLogin
  /\ session = NoSession
  /\ SelectorSubmits(TRUE, auth.formData)
  /\ \/ /\ profiles[uid] # NoProfile
        /\ session' = uid
        /\ lastToast' = "Welcome back!"
        /\ IF profiles[uid] = "staff"
           THEN page' = "staff" /\ UNCHANGED menuVars
           ELSE EnterMenu(uid)
        /\ auth' = [AuthMounted(auth.component) EXCEPT
                      !.last = [NoHandleAuth EXCEPT !.outcome = "signed_in",
                                  !.form = auth.formData, !.calls = 1, !.user = uid]]
        /\ UNCHANGED <<fault, profiles, staffPage>>
     \/ /\ HandleAuthCatch
  /\ UNCHANGED <<user_roles, inflight, locState, checkoutVars, storeVars, staffVars, feed,
                 ordersPage, catalog>>

\* handleAuth of the Auth with the account type selector, a sign-up: signUp
\* carries user_type: userType, the trigger makes the profile from it, and
\* the page navigates to /staff or /menu by the same userType
HandleAuthSelectorSignUp ==
  /\ page = "auth"
  /\ auth.component = "selector"
  /\ ~auth.isLogin
  /\ session = NoSession
  /\ SelectorSubmits(FALSE, auth.formData)
  /\ \/ /\ profiles[NewUser] = NoProfile
        /\ profiles' = [profiles EXCEPT ![NewUser] = HandleNewUser(auth.userType)]
        /\ session' = NewUser
        /\ lastToast' = "Account created!"
        /\ IF auth.userType = "staff"
           THEN page' = "staff" /\ UNCHANGED menuVars
           ELSE page' = "menu" /\ MenuMounted
        /\ auth' = [AuthMounted(auth.component) EXCEPT
                      !.last = [NoHandleAuth EXCEPT !.outcome = "signed_up",
                                  !.isLogin = FALSE, !.form = auth.formData, !.calls = 1,
                                  !.user = NewUser,
                                  !.created = HandleNewUser(auth.userType)]]
        /\ UNCHANGED <<fault, staffPage>>
     \/ /\ HandleAuthCatch
  /\ UNCHANGED <<user_roles, inflight, locState, checkoutVars, storeVars, staffVars, feed,
                 ordersPage, catalog>>

\* Staff.checkStaffAuth of the signed-in visitor's dashboard: no session
\* sends to /auth, a profile other than staff to /menu; a staff profile stays,
\* with a toast when the staff relation holds no row for the user
CheckStaffAuth ==
  /\ page = "staff"
  /\ staffPage.loading
  /\ IF session = NoSession
     THEN /\ page' = "auth"
          /\ UNCHANGED <<menuVars, staffPage, staffToast>>
     ELSE IF profiles[session] # "staff"
     THEN /\ EnterMenu(session)
          /\ UNCHANGED <<staffPage, staffToast>>
     ELSE /\ staffPage' = [loading |-> FALSE]
          /\ staffToast' = IF session \in StaffUsers THEN staffToast
                           ELSE "No Branch Assigned"
          /\ UNCHANGED <<page, menuVars>>
  /\ UNCHANGED <<session, auth, profiles, user_roles, inflight, locState, checkoutVars, lastToast,
                 storeVars, view, lastWrite, liveVars>>

\* the /staff route opened by its address
OpenStaff ==
  /\ page \in {"menu", "auth"}
  /\ page' = "staff"
  /\ MenuUnmounted
  /\ auth' = AuthMounted(auth.component)
  /\ staffPage' = StaffMounted
  /\ UNCHANGED <<session, profiles, user_roles, inflight, locState, checkoutVars, lastToast,
                 storeVars, staffVars, liveVars>>

\* Staff.handleSignOut
StaffSignOut ==
  /\ page = "staff"
  /\ ~staffPage.loading
  /\ session' = NoSession
  /\ page' = "auth"
  /\ staffPage' = StaffMounted
  /\ UNCHANGED <<auth, profiles, user_roles, inflight, menuVars, locState, checkoutVars, lastToast,
                 storeVars, staffVars, liveVars>>

\* "Users can update their own profile": USING (auth.uid() = id) and no
\* WITH CHECK, so the signed-in user may rewrite the user_type of its row
ProfileUpdateOwn(t) ==
  /\ session # NoSession
  /\ profiles[session] # NoProfile
  /\ profiles' = [profiles EXCEPT ![session] = t]
  /\ UNCHANGED <<page, session, auth, user_roles, inflight, staffPage, menuVars, locState,
                 checkoutVars, lastToast, storeVars, staffVars, liveVars>>

\* "Admins can insert roles": an administrator gives a user a role
AdminInsertRole(uid, role) ==
  /\ profiles[uid] # NoProfile
  /\ user_roles' = user_roles \cup {<<uid, role>>}
  /\ UNCHANGED <<page, session, auth, profiles, staffPage, inflight, menuVars, locState,
                 checkoutVars, lastToast, storeVars, staffVars, liveVars>>

\* every page at work, each call to the store or to auth free to fail
NextFaults ==
  \/ PlaceOrderStart
  \/ PlaceOrderGetSession
  \/ PlaceOrderInsertOrder
  \/ PlaceOrderInsertItems
  \/ BackToMenu
  \/ OrdersCheckAuthAndFetch
  \/ OrdersOnOrdersChange
  \/ OrdersBackToMenu
  \/ MenuReload
  \/ HandleSignOut
  \/ \E f \in {"email", "password", "name"} : AuthSetField(f, ValidForm[f])
  \/ AuthToggle
  \/ HandleAuth
  \/ \E uid \in Users : HandleAuthSignIn(uid)
  \/ HandleAuthSignUp
  \/ \E s \in StaffUsers : StaffFetchOrders(s)
  \/ \E s \in StaffUsers : \E k \in 1..Len(view[s]), v \in Statuses :
       StaffSelectStatus(s, k, v)

SpecFaults == InitLiveDesk /\ [][NextFaults]_vars

\* a visitor at the sign-in page, no order placed yet
InitVisitor ==
  /\ page = "auth"
  /\ session = NoSession
  /\ branches = <<"b1", "b2">>
  /\ cart = <<>>
  /\ selectedBranch = NoBranch
  /\ lastOp = NoOp
  /\ prevCart = <<>>
  /\ lastToast = ""
  /\ locState = NoState
  /\ InitCheckout
  /\ InitStore
  /\ InitStaff
  /\ InitLive

InitAuthDesk == InitVisitor /\ InitIdent

\* the Auth with the schemas: the form filled in, submitted and answered
NextAuth ==
  \/ \E f \in Fields : \E v \in FieldValues(f) : AuthSetField(f, v)
  \/ AuthToggle
  \/ HandleAuth
  \/ \E uid \in Accounts : HandleAuthSignIn(uid)
  \/ HandleAuthSignUp
  \/ HandleSignOut
  \/ CheckStaffAuth
  \/ StaffSignOut

SpecAuth == InitAuthDesk /\ [][NextAuth]_vars

\* the sign-in page is either of the two Auth components of the source
InitRolesDesk ==
  /\ InitVisitor
  /\ auth \in {AuthMounted("schema"), AuthMounted("selector")}
  /\ profiles = [a \in Accounts |->
                   IF a \in StaffUsers THEN "staff"
                   ELSE IF a \in Users THEN "customer" ELSE NoProfile]
  /\ user_roles = {<<a, "staff">> : a \in StaffUsers} \cup {<<a, "customer">> : a \in Users}
  /\ staffPage = StaffMounted
  /\ inflight = {}

\* visitors signing up, signing in and moving between the Menu and the Staff
\* dashboard, while an administrator gives staff roles to users who are
\* signed out and a signed-in user rewrites its own profile
NextRoles ==
  \/ \E f \in {"email", "password", "name"} : AuthSetField(f, ValidForm[f])
  \/ AuthToggle
  \/ \E t \in UserTypes : AuthSetUserType(t)
  \/ HandleAuth
  \/ \E uid \in Accounts : HandleAuthSignIn(uid)
  \/ HandleAuthSignUp
  \/ \E uid \in Accounts : HandleAuthSelectorSignIn(uid)
  \/ HandleAuthSelectorSignUp
  \/ CheckStaffAuth
  \/ OpenStaff
  \/ StaffSignOut
  \/ HandleSignOut
  \/ \E t \in UserTypes : ProfileUpdateOwn(t)
  \/ \E uid \in Accounts \ {session} : AdminInsertRole(uid, "staff")

SpecRoles == InitRolesDesk /\ [][NextRoles]_vars

\* a signed-in user, customer or staff member, on the Orders page, with one
\* takeaway order of customer u1 placed at branch b1
InitOrdersDesk ==
  /\ page = "orders"
  /\ session \in Users \cup StaffUsers
  /\ branches = <<"b1", "b2">>
  /\ cart = <<>>
  /\ selectedBranch = NoBranch
  /\ lastOp = NoOp
  /\ prevCart = <<>>
  /\ lastToast = ""
  /\ locState = NoState
  /\ InitCheckout
  /\ InitStaff
  /\ InitLive
  /\ InitIdent
  /\ orders = <<PlacedOrder(1, "b1", "takeaway")>>
  /\ ordered_items = OrderItems(1, ExampleCart)

\* the Orders page of the customer who placed the order
InitOverlap == InitOrdersDesk /\ session \in Users

\* staff member s1 moves the order along while the Orders page re-fetches on
\* every change, each answer arriving when the network delivers it
NextOverlap ==
  \/ OrdersCheckAuthAndFetch
  \/ OrdersFetchCall
  \/ \E rows \in inflight : OrdersFetchAnswer(rows)
  \/ StaffFetchOrders("s1")
  \/ StaffOnOrdersChange("s1")
  \/ \E k \in 1..Len(view["s1"]), v \in Statuses : StaffSelectStatus("s1", k, v)

SpecOverlap == InitOverlap /\ [][NextOverlap]_vars

\* the same with any signed-in user at the Orders page
SpecOrdersList == InitOrdersDesk /\ [][NextOverlap]_vars

\* an order being placed while the staff work the status selectors, every
\* call to the store free to fail
NextOnce ==
  \/ PlaceOrderStart
  \/ PlaceOrderGetSession
  \/ PlaceOrderInsertOrder
  \/ PlaceOrderInsertItems
  \/ \E s \in StaffUsers : StaffFetchOrders(s)
  \/ \E s \in StaffUsers : \E k \in 1..Len(view[s]), v \in Statuses :
       StaffSelectStatus(s, k, v)

SpecOnce == InitLiveDesk /\ [][NextOnce]_vars

\* the dashboards with the status selector as the only way to the store
NextStaffDesk ==
  \/ \E s \in StaffUsers : StaffFetchOrders(s)
  \/ \E s \in StaffUsers : \E k \in 1..Len(view[s]), v \in Statuses :
       StaffSelectStatus(s, k, v)

SpecStaffDesk == InitStaffDesk /\ [][NextStaffDesk]_vars

\* ---------------------------------------------------------- cart properties
\* the lines of a cart that are not for the given id, in cart order
RECURSIVE Without(_, _)
Without(c, id) ==
  IF c = <<>> THEN <<>>
  ELSE IF Head(c).id = id THEN Without(Tail(c), id)
       ELSE <<Head(c)>> \o Without(Tail(c), id)

\* number of lines of a cart that are for the given id
LinesFor(c, id) == Cardinality({k \in 1..Len(c) : c[k].id = id})

\* catalog price of a menu item
MenuPrice(id) == (CHOOSE m \in menuItems : m.id = id).price

\* sum over a set of item ids of the quantity the page shows for the item
RECURSIVE SumShown(_, _)
SumShown(c, S) ==
  IF S = {} THEN 0
  ELSE LET x == CHOOSE y \in S : TRUE
       IN  ShownQuantity(c, x) + SumShown(c, S \ {x})

\* sum over a set of item ids of catalog price times shown quantity
RECURSIVE SumPriced(_, _)
SumPriced(c, S) ==
  IF S = {} THEN 0
  ELSE LET x == CHOOSE y \in S : TRUE
       IN  MenuPrice(x) * ShownQuantity(c, x) + SumPriced(c, S \ {x})

\* C1: after any sequence of addToCart and updateQuantity calls from the empty
\* cart, the cart holds at most one line per item id; and addToCart(X) called
\* twice in a row on it leaves exactly one line for X, of quantity 2 when X was
\* not in the cart.
C1_OneLinePerItem ==
  /\ \A j, k \in 1..Len(cart) : cart[j].id = cart[k].id => j = k
  /\ \A m \in menuItems :
       LET twice == AddToCartFn(AddToCartFn(cart, m), m)
       IN  /\ LinesFor(twice, m.id) = 1
           /\ ShownQuantity(twice, m.id) = ShownQuantity(cart, m.id) + 2
           /\ ~HasLine(cart, m.id) => ShownQuantity(twice, m.id) = 2

\* C1 witness: X was added to a cart that already held X once, and the cart
\* holds a single line for X with quantity 2
C1_Witness ==
  /\ lastOp.op = "addToCart"
  /\ ShownQuantity(prevCart, lastOp.id) = 1
  /\ LinesFor(cart, lastOp.id) = 1
  /\ ShownQuantity(cart, lastOp.id) = 2

\* C2: the cart count equals the sum of the quantities of the lines (one per
\* item) and is never negative, every line in the cart has quantity >= 1, and
\* a line whose quantity updateQuantity drove to 0 or below is not in the cart.
C2_CountAndPositiveLines ==
  /\ cartCount = SumShown(cart, ItemIds)
  /\ cartCount >= 0
  /\ \A k \in 1..Len(cart) : cart[k].quantity >= 1
  /\ (/\ lastOp.op = "updateQuantity"
      /\ HasLine(prevCart, lastOp.id)
      /\ ShownQuantity(prevCart, lastOp.id) + lastOp.delta <= 0)
       => ~HasLine(cart, lastOp.id)

\* C2 witness: updateQuantity drove a line to exactly 0 while another line
\* stayed, and the count is the remaining quantity
C2_Witness ==
  /\ lastOp.op = "updateQuantity"
  /\ HasLine(prevCart, lastOp.id)
  /\ ShownQuantity(prevCart, lastOp.id) + lastOp.delta = 0
  /\ ~HasLine(cart, lastOp.id)
  /\ cartCount = MaxQty

\* C3: addToCart(item) increases the quantity of an existing line for item.id
\* by exactly 1 leaving every other line and the order of lines unchanged, and
\* otherwise appends a new line of quantity 1 after the unchanged lines.
C3_AddToCart ==
  lastOp.op = "addToCart" =>
    IF HasLine(prevCart, lastOp.id)
    THEN /\ Len(cart) = Len(prevCart)
         /\ \A k \in 1..Len(prevCart) :
              /\ cart[k].id = prevCart[k].id
              /\ cart[k].price = prevCart[k].price
              /\ cart[k].quantity =
                   prevCart[k].quantity + (IF prevCart[k].id = lastOp.id THEN 1 ELSE 0)
    ELSE /\ Len(cart) = Len(prevCart) + 1
         /\ SubSeq(cart, 1, Len(prevCart)) = prevCart
         /\ cart[Len(cart)] =
              [id |-> lastOp.id, price |-> MenuPrice(lastOp.id), quantity |-> 1]

\* C3 witness: the first of two lines was incremented and is still first
C3_Witness ==
  /\ lastOp.op = "addToCart"
  /\ Len(prevCart) = 2
  /\ prevCart[1].id = lastOp.id
  /\ cart[1].quantity = prevCart[1].quantity + 1
  /\ cart[2] = prevCart[2]

\* C4: updateQuantity(itemId, delta) adds the signed delta to the matching
\* line and removes that line when the result is <= 0; with itemId not in the
\* cart the cart is unchanged; lines for other ids are never changed or removed.
C4_UpdateQuantity ==
  lastOp.op = "updateQuantity" =>
    LET id == lastOp.id
        q  == ShownQuantity(prevCart, id) + lastOp.delta
    IN  /\ Without(cart, id) = Without(prevCart, id)
        /\ ~HasLine(prevCart, id) => cart = prevCart
        /\ (HasLine(prevCart, id) /\ q <= 0) =>
             /\ ~HasLine(cart, id)
             /\ cart = Without(prevCart, id)
        /\ (HasLine(prevCart, id) /\ q > 0) =>
             /\ Len(cart) = Len(prevCart)
             /\ \A k \in 1..Len(cart) : cart[k].id = prevCart[k].id
             /\ ShownQuantity(cart, id) = q

\* C4 witness: a negative delta removed one of two lines and the other stayed
C4_Witness ==
  /\ lastOp.op = "updateQuantity"
  /\ lastOp.delta < 0
  /\ Len(prevCart) = 2
  /\ Len(cart) = 1
  /\ cart[1].id # lastOp.id
  /\ cart[1].quantity = MaxQty

\* C4 witness for the absent id: updateQuantity on an id that is not in a
\* non-empty cart
C4_WitnessAbsent ==
  /\ lastOp.op = "updateQuantity"
  /\ ~HasLine(prevCart, lastOp.id)
  /\ prevCart # <<>>
  /\ cart = prevCart

\* C5: the cart total is the sum over the lines of unit price times quantity
\* (the catalog price of each item times the quantity shown for it), is >= 0
\* in every reachable cart, and is 0 for the empty cart.
C5_CartTotal ==
  /\ cartTotal = SumPriced(cart, ItemIds)
  /\ cartTotal >= 0
  /\ cart = <<>> => cartTotal = 0
  /\ \A m \in menuItems : m.price >= 0

\* C5 witness: two lines, one of them with quantity above 1
C5_Witness ==
  /\ Len(cart) = 2
  /\ cart[1].quantity = 2
  /\ cartTotal = 2 * cart[1].price + cart[2].quantity * cart[2].price

\* ------------------------------------------------------ checkout properties
\* the cart the mounted Checkout read from location.state
checkoutCart == locState.cart

\* C6: pricing is a function of (cart, orderType): subtotal is the cart total,
\* tax is 10% of the subtotal, deliveryFee is 5.99 exactly when orderType is
\* delivery and 0 for dine_in and takeaway, total = subtotal + tax +
\* deliveryFee; between two order types only deliveryFee and total differ.
C6_Pricing ==
  /\ Subtotal(checkoutCart) = SumPriced(checkoutCart, ItemIds)
  /\ Subtotal(checkoutCart) = CartTotal(checkoutCart)
  /\ 10 * Tax(checkoutCart) = Subtotal(checkoutCart)
  /\ \A t \in OrderTypes :
       /\ DeliveryFee(t) = FlatDeliveryFee <=> t = "delivery"
       /\ t \in {"dine_in", "takeaway"} => DeliveryFee(t) = 0
       /\ Total(checkoutCart, t) =
            Subtotal(checkoutCart) + Tax(checkoutCart) + DeliveryFee(t)
  /\ \A t1, t2 \in OrderTypes :
       Total(checkoutCart, t1) - Total(checkoutCart, t2) = DeliveryFee(t1) - DeliveryFee(t2)
  /\ Total(checkoutCart, "delivery") = Total(checkoutCart, "takeaway") + 5990

\* C6 witness: the Checkout shows a two-line cart with takeaway selected
C6_Witness ==
  /\ page = "checkout"
  /\ Len(checkoutCart) = 2
  /\ orderType = "takeaway"
  /\ Total(checkoutCart, orderType) = Subtotal(checkoutCart) + Tax(checkoutCart)

\* the cart {A at 8.99 x 2, B at 12.99 x 1}
IsExampleCart(c) ==
  /\ Len(c) = 2
  /\ \E k \in 1..2 : c[k].price = 8990 /\ c[k].quantity = 2
  /\ \E k \in 1..2 : c[k].price = 12990 /\ c[k].quantity = 1

\* C7: for the cart {A at 8.99 x 2, B at 12.99 x 1} the subtotal is 30.97, the
\* tax is 3.097 and displays as 3.10, the dine_in total displays as 34.07 and
\* the delivery total displays as 40.06.
C7_ExampleCart ==
  (page = "checkout" /\ IsExampleCart(checkoutCart)) =>
    /\ Subtotal(checkoutCart) = 30970
    /\ ToFixed2(Subtotal(checkoutCart)) = {3097}
    /\ Tax(checkoutCart) = 3097
    /\ ToFixed2(Tax(checkoutCart)) = {310}
    /\ ToFixed2(Total(checkoutCart, "dine_in")) = {3407}
    /\ ToFixed2(Total(checkoutCart, "delivery")) = {4006}
    /\ orderType = "dine_in" => ToFixed2(Total(checkoutCart, orderType)) = {3407}
    /\ orderType = "delivery" => ToFixed2(Total(checkoutCart, orderType)) = {4006}

\* C7 witness: the Checkout shows the example cart with delivery selected
C7_Witness ==
  /\ page = "checkout"
  /\ IsExampleCart(checkoutCart)
  /\ orderType = "delivery"

\* C8: with an empty cart no handlePlaceOrder gets an order row created,
\* whatever the order type: every attempt ends without a row (refused at the
\* address check, sent to /auth, or answered with an error by the store).
C8_EmptyCartRejected ==
  checkoutCart = <<>> =>
    /\ po.order = 0
    /\ pc # "insertItems"
    /\ po.outcome \in {"none", "running", "address_required", "no_session", "order_error"}
    /\ po.calls.insertItems = 0

\* C8 witness: the Checkout was opened without navigation state, place-order
\* was pressed for a takeaway order and the attempt ended in an error
C8_Witness ==
  /\ page = "checkout"
  /\ checkoutCart = <<>>
  /\ orderType = "takeaway"
  /\ po.outcome = "order_error"
  /\ po.calls.insertOrder = 1
  /\ orders = <<>>

\* C9: a place-order with orderType delivery and an empty or whitespace-only
\* address is rejected: no session lookup, no order insert, no item insert,
\* the loading flag stays false; no delivery order with a blank address is
\* ever stored.
C9_BlankAddressRejected ==
  /\ po.outcome = "address_required" =>
       /\ po.calls = NoCalls
       /\ po.order = 0
       /\ ~loading
       /\ pc = "idle"
       /\ page = "checkout"
       /\ lastToast = "Please enter delivery address"
  /\ (pc # "idle" /\ orderType = "delivery") =>
         \E k \in 1..Len(deliveryAddress) : ~IsSpace(deliveryAddress[k])
  /\ \A k \in 1..Len(orders) :
       orders[k].order_type = "delivery" =>
         \E j \in 1..Len(orders[k].delivery_address) :
            ~IsSpace(orders[k].delivery_address[j])

\* C9 witness: place-order pressed on a non-empty cart with delivery selected
\* and a whitespace-only address
C9_Witness ==
  /\ po.outcome = "address_required"
  /\ orderType = "delivery"
  /\ deliveryAddress = <<" ">>
  /\ checkoutCart # <<>>
  /\ orders = <<>>

\* ---------------------------------------------------------- staff properties
\* C10: no order whose order_type is not delivery ever has status
\* in_delivery, whichever way the status update reaches the store.
C10_InDeliveryOnlyForDelivery ==
  \A k \in 1..Len(orders) :
    orders[k].status = "in_delivery" => orders[k].order_type = "delivery"

\* C11: once the status of an order has left pending, no write of the owning
\* customer is applied to the order: neither an update of the order row nor
\* an insert of a line item for it.
C11_NonPendingRejectsCustomer ==
  (lastWrite.by \in Users /\ lastWrite.rows > 0) => lastWrite.from = "pending"

\* ------------------------------------------------------ stored order properties
\* C12: after handlePlaceOrder has finished, an order row is stored only
\* together with its line items and a line item only together with its order
\* row; an invocation that reported success stored one item per cart line.
C12_OrderAndItemsTogether ==
  pc = "idle" =>
    /\ \A k \in 1..Len(orders) : ItemsOfOrder(orders[k].id) # <<>>
    /\ \A j \in 1..Len(ordered_items) :
         \E k \in 1..Len(orders) : orders[k].id = ordered_items[j].order_id
    /\ po.outcome = "placed" =>
         ItemsOfOrder(po.order) = OrderItems(po.order, checkoutCart)

\* sum of price_each * quantity over item rows
RECURSIVE ItemsSubtotal(_)
ItemsSubtotal(rows) ==
  IF rows = <<>> THEN 0
  ELSE Head(rows).price_each * Head(rows).quantity + ItemsSubtotal(Tail(rows))

\* C13: whenever no handlePlaceOrder is in flight, every stored order has
\* tip = 0 and total = subtotal + tax + delivery_fee + tip, the subtotal being
\* the sum of price_each * quantity over the stored line items of the order.
C13_StoredTotal ==
  pc = "idle" =>
    \A k \in 1..Len(orders) :
      /\ orders[k].tip = 0
      /\ orders[k].total = ItemsSubtotal(ItemsOfOrder(orders[k].id)) + orders[k].tax
                             + orders[k].delivery_fee + orders[k].tip

\* C14: a stored order carries a delivery address, one with a non-space
\* character, exactly when its order_type is delivery; a dine_in or takeaway
\* order carries none, whatever the address field of the form holds.
C14_AddressIffDelivery ==
  \A k \in 1..Len(orders) :
    IF orders[k].order_type = "delivery"
    THEN /\ orders[k].delivery_address # Null
         /\ \E j \in 1..Len(orders[k].delivery_address) :
              ~IsSpace(orders[k].delivery_address[j])
    ELSE orders[k].delivery_address = Null

\* C14 witness: an order placed as dine_in or takeaway from a form whose
\* address field still holds a typed address
C14_Witness ==
  /\ po.outcome = "placed"
  /\ orderType # "delivery"
  /\ deliveryAddress = <<" ", "a">>
  /\ \E k \in 1..Len(orders) :
       orders[k].id = po.order /\ orders[k].order_type = orderType

\* the embedded item rows that correspond to the lines of a cart
CartItemRows(c) ==
  [j \in 1..Len(c) |->
     [quantity |-> c[j].quantity, price_each |-> c[j].price, menu |-> c[j].id]]

\* C15: once handlePlaceOrder has stored an order for a cart of N lines and
\* has finished, every dashboard fetch that returns the order returns it
\* with exactly N ordered items, line by line with the quantity and the price
\* of the cart, whatever the catalog prices have become since.
C15_RoundTrip ==
  (pc = "idle" /\ po.order # 0) =>
    \A s \in StaffUsers :
      \A k \in 1..Len(StaffFetchResult(s, orders)) :
        StaffFetchResult(s, orders)[k].id = po.order =>
          StaffFetchResult(s, orders)[k].ordered_items = CartItemRows(checkoutCart)

\* ------------------------------------------------------- lifecycle properties
\* position of a status on the chain pending, preparing, ready, in_delivery,
\* delivered
StatusRank(st) ==
  CASE st = "pending" -> 1
    [] st = "preparing" -> 2
    [] st = "ready" -> 3
    [] st = "in_delivery" -> 4
    [] st = "delivered" -> 5
    [] OTHER -> 0

\* the last write is a status update that rewrote a row
StatusRewritten == lastWrite.kind = "status" /\ lastWrite.rows > 0

\* C16: a status update of a staff member leaves the order further along
\* the chain pending, preparing, ready, in_delivery, delivered than it found
\* it, or cancelled (or as it was); never at an earlier status.
C16_ForwardOnly ==
  (StatusRewritten /\ lastWrite.by \in StaffUsers) =>
    \/ StatusOf(lastWrite.order) = lastWrite.from
    \/ StatusOf(lastWrite.order) = "cancelled"
    \/ /\ lastWrite.from # "cancelled"
       /\ StatusRank(lastWrite.from) < StatusRank(StatusOf(lastWrite.order))

\* C17: no status update changes the status of an order it found delivered
\* or cancelled, a stale dashboard being no exception.
C17_TerminalStatuses ==
  (StatusRewritten /\ lastWrite.from \in {"delivered", "cancelled"}) =>
    StatusOf(lastWrite.order) = lastWrite.from

\* the branch_id of the order with the id
BranchOf(orderId) ==
  orders[CHOOSE k \in 1..Len(orders) : orders[k].id = orderId].branch_id

\* C18: a dashboard lists only orders of the branch its staff member is
\* assigned to, a status update of a staff member rewrites a row only if the
\* order is of that branch, and no user is staff of two branches.
C18_OwnBranchOnly ==
  /\ \A s \in StaffUsers : \A k \in 1..Len(view[s]) :
       IsStaffOfBranch(s, view[s][k].branch_id)
  /\ (StatusRewritten /\ lastWrite.by \in StaffUsers) =>
       IsStaffOfBranch(lastWrite.by, BranchOf(lastWrite.order))
  /\ \A s \in StaffUsers :
       Cardinality({b \in BranchIds : IsStaffOfBranch(s, b)}) <= 1

\* C18 witness: staff member s1 of branch b1 ran updateOrderStatus on the
\* order of branch b2; the store answered without an error, rewrote no row,
\* and the order is as it was
C18_Witness ==
  /\ lastWrite.by = "s1"
  /\ lastWrite.kind = "status"
  /\ lastWrite.order = 2
  /\ lastWrite.rows = 0
  /\ BranchOf(2) = "b2"
  /\ StatusOf(2) = "pending"
  /\ staffToast = "Status updated"

\* ------------------------------------------------------------ feed properties
\* C19: a dashboard that has no change notification left to handle, while no
\* handlePlaceOrder is in flight and no dashboard fetch has failed, shows what its fetch returns from the store
\* as it is: every order of its branch together with the line items stored
\* for it, also those inserted after the order row.
C19_ViewsFollowStore ==
  (pc = "idle" /\ fault.site # "Staff.fetchOrders") =>
    \A s \in StaffUsers : s \notin feed => view[s] = StaffFetchResult(s, orders)

\* --------------------------------------------------------- failure properties
\* C20: a failed call to the store or to auth ends in a toast, at every call
\* site: a handlePlaceOrder that ended in its catch left its error toast on
\* the screen, and the last failed call of any other page (status update,
\* sign-in or sign-up, the fetches of Menu, Orders and Staff) showed one.
C20_FailuresNotified ==
  /\ po.outcome \in {"order_error", "items_error"} => lastToast = "Error placing order"
  /\ fault.site # "none" => fault.toast # "none"

\* ------------------------------------------------------ place-order properties
\* C21: a handlePlaceOrder that ended in its catch (the orders insert or the
\* ordered_items insert failed) has left the user on the Checkout with the
\* error toast and an enabled button; and whenever no handlePlaceOrder is in
\* flight the loading flag is false.
C21_FailureLeavesCheckout ==
  /\ po.outcome \in {"order_error", "items_error"} =>
       /\ page = "checkout"
       /\ lastToast = "Error placing order"
       /\ pc = "idle"
       /\ ~loading
  /\ pc = "idle" => ~loading
  /\ pc # "idle" => loading /\ page = "checkout"

\* C21 witness: the ordered_items insert failed after the order row was stored
C21_Witness ==
  /\ po.outcome = "items_error"
  /\ po.calls.insertItems = 1
  /\ page = "checkout"
  /\ ~loading
  /\ Len(orders) = 1

\* C22: a status update of a staff member on an order of the member's branch
\* rewrites the row whatever status it finds there, and after a status update
\* that rewrote a row the stored status is the one that update sent: of two
\* updates of the same order the one applied last decides.
C22_LastWriteWins ==
  /\ StatusRewritten => StatusOf(lastWrite.order) = lastWrite.to
  /\ (/\ lastWrite.kind = "status"
      /\ lastWrite.by \in StaffUsers
      /\ lastWrite.order \in {orders[k].id : k \in 1..Len(orders)}
      /\ IsStaffOfBranch(lastWrite.by, BranchOf(lastWrite.order))) =>
       lastWrite.rows = 1

\* C22 witness: s1 set order 1 to preparing, as its dashboard still shows,
\* and s2 then set it to ready
C22_Witness ==
  /\ lastWrite.by = "s2"
  /\ lastWrite.order = 1
  /\ lastWrite.from = "preparing"
  /\ lastWrite.to = "ready"
  /\ lastWrite.rows = 1
  /\ StatusOf(1) = "ready"
  /\ Len(view["s1"]) = 1
  /\ view["s1"][1].status = "preparing"

\* the fields of a submitted form that the sign-in or the sign-up is to refuse:
\* an e-mail that is no address, a password shorter than 6 or longer than 100
\* characters and, for a sign-up, an empty name or a phone longer than 20
C23_Offending(isLogin, form) ==
  {f \in Fields :
     \/ f = "email" /\ TrimText(form.email).shape # "a@b.c"
     \/ f = "password" /\ (form.password.len < 6 \/ form.password.len > 100)
     \/ f = "name" /\ ~isLogin /\ TrimText(form.name).len = 0
     \/ f = "phone" /\ ~isLogin /\ TrimText(form.phone).len > 20}

C24_CheckoutReceivesCartAndBranch ==
  [][/\ (page = "menu" /\ page' = "checkout" /\ locState' # NoState) =>
          /\ selectedBranch # NoBranch
          /\ cart # <<>>
          /\ locState' = [cart |-> cart, branchId |-> selectedBranch]
     /\ (/\ page = "menu"
         /\ selectedBranch = NoBranch \/ cart = <<>>
         /\ lastToast' # lastToast
         /\ lastToast' \in {"Please select a branch", "Cart is empty"}) =>
          /\ page' = "menu"
          /\ locState' = locState
          /\ cart' = cart
     /\ Len(orders') > Len(orders) =>
          orders'[Len(orders')].branch_id = locState.branchId]_vars

\* an order stored for the second branch while the Checkout that was handed
\* the cart and that branch is still open
C24_Witness ==
  /\ page = "checkout"
  /\ locState.branchId = "b2"
  /\ locState.cart # <<>>
  /\ Len(orders) = 1
  /\ orders[1].branch_id = "b2"
  /\ lastToast = "Added to cart"

\* C25: the staff dashboard and the Menu decide as the server-side
\* has_role(user, staff) does: a signed-in visitor stays on the dashboard once
\* checkStaffAuth has returned only if has_role is true for it, and stays on
\* the Menu only if has_role is false for it, the user_roles rows of a user
\* changing only while the user is signed out.
C25_PagesFollowHasRole ==
  /\ (page = "staff" /\ ~staffPage.loading) => HasRole(session, "staff")
  /\ (page = "menu" /\ session # NoSession) => ~HasRole(session, "staff")

\* C26: every sign-up creates a customer: the profile the last sign-up made has
\* user_type customer, and the new user holds no staff role.
C26_SignUpCreatesCustomer ==
  auth.last.outcome = "signed_up" =>
    /\ auth.last.created = "customer"
    /\ ~HasRole(auth.last.user, "staff")

\* C27: once every re-fetch an orders change triggered has completed (no
\* notification left to handle, no answer awaited, no call failed), the
\* Orders page shows the rows the store holds for its user, also when the
\* re-fetches overlapped and their answers arrived out of order.
C27_SettledListEqualsStore ==
  (/\ page = "orders"
   /\ ~ordersPage.loading
   /\ session \notin feed
   /\ inflight = {}
   /\ fault = NoFault) =>
     ordersPage.orders = OrdersFetchResult(session)

\* C28: nothing is retried. A handlePlaceOrder sends at most one insert into
\* orders and at most one into ordered_items; one that failed sent no call
\* after the failing one and ended with the error toast. An updateOrderStatus
\* sends one update, which rewrites at most one row, and one that failed ended
\* with the error toast and, no other update having gone through, with the
\* stored statuses as they were.
C28_NoRetry ==
  /\ po.calls.insertOrder <= 1
  /\ po.calls.insertItems <= 1
  /\ po.calls.getSession <= 1
  /\ po.outcome = "order_error" =>
       /\ po.calls.insertOrder = 1 /\ po.calls.insertItems = 0
       /\ lastToast = "Error placing order"
       /\ pc = "idle"
  /\ po.outcome = "items_error" =>
       /\ po.calls.insertOrder = 1 /\ po.calls.insertItems = 1
       /\ lastToast = "Error placing order"
       /\ pc = "idle"
  /\ lastWrite.kind = "status" => lastWrite.rows <= 1
  /\ fault.site = "Staff.updateOrderStatus" =>
       /\ fault.toast = "Error"
       /\ lastWrite = NoWrite =>
            /\ staffToast = "Error"
            /\ \A k \in 1..Len(orders) : orders[k].status = "pending"

\* a handlePlaceOrder has ended at a failed insert into ordered_items after
\* one insert into orders, and a status change of the stored order has failed
C28_Witness ==
  /\ po.outcome = "items_error"
  /\ po.calls.insertOrder = 1 /\ po.calls.insertItems = 1
  /\ Len(orders) = 1 /\ ordered_items = <<>>
  /\ fault.site = "Staff.updateOrderStatus"
  /\ lastWrite = NoWrite
  /\ staffToast = "Error"
  /\ StatusOf(1) = "pending"

\* C29: without a session handlePlaceOrder writes nothing: on a Checkout with
\* no session it never reaches an insert, and the attempt that found no
\* session ended with navigate("/auth"), no insert sent and no row created;
\* every orders row was inserted with status pending for a signed-in user, and
\* the row of the running handlePlaceOrder carries the user id of the current
\* session.
C29_NoSessionNoWrite ==
  /\ (page = "checkout" /\ session = NoSession) =>
       /\ pc \in {"idle", "getSession"}
       /\ po.calls.insertOrder = 0 /\ po.calls.insertItems = 0
       /\ po.order = 0
  /\ po.outcome = "no_session" =>
       /\ po.calls = [NoCalls EXCEPT !.getSession = 1]
       /\ po.order = 0
       /\ page # "checkout"
       /\ pc = "idle"
  /\ \A k \in 1..Len(orders) :
       /\ orders[k].user_id \in Users
       /\ orders[k].status = "pending"
  /\ po.order # 0 =>
       \E k \in 1..Len(orders) :
          /\ orders[k].id = po.order
          /\ orders[k].user_id = po.user
          /\ page = "checkout" => orders[k].user_id = session

\* a visitor without a session pressed Place Order on a Checkout opened by
\* its address and was sent to /auth with nothing stored
C29_Witness ==
  /\ po.outcome = "no_session"
  /\ po.calls.getSession = 1
  /\ page = "auth"
  /\ session = NoSession
  /\ orders = <<>> /\ ordered_items = <<>>

\* C30: the list of the Orders page holds only orders owned by the signed-in
\* user, whoever that user is, a user with a row in the staff relation
\* included.
C30_OnlyOwnOrdersListed ==
  page = "orders" =>
    \A k \in 1..Len(ordersPage.orders) : ordersPage.orders[k].user_id = session

====
